---- MODULE Spec2Model ----
(***************************************************************************)
(* Secondary CPU bring-up of lk2nd: the device-tree resolver helpers, the  *)
(* secure-monitor boot-address setter and the boot dispatcher of           *)
(* lk2nd/smp/cpu-boot.c (second half of src/app/aboot/bootapp/boot.c) and  *)
(* the msm8994 power sequencer of src/lk2nd/smp/gpl/cortex-a-msm8994.c.    *)
(*                                                                         *)
(* Every C function is one operator that yields the set of its possible    *)
(* outcomes, an outcome being the return value with the ordered trace of   *)
(* the externally visible steps the function took (library calls, word     *)
(* reads, diagnostics, register accesses, barriers, delays).  The program  *)
(* is single threaded, so an action appends one whole call to the log.     *)
(***************************************************************************)
EXTENDS Integers, Sequences, FiniteSets, TLC

VARIABLES dtb, mpidr_hw, config, scm_armv8, regs, readback,
          critical_section_count, args, calls, pc

vars == <<dtb, mpidr_hw, config, scm_armv8, regs, readback,
          critical_section_count, args, calls, pc>>

(***************************************************************************)
(* Bounds of the model.                                                    *)
(***************************************************************************)
MaxIndex == 2
MaxResolverCalls == 2
MaxBoots == 2
MaxSeqCalls == 2

(***************************************************************************)
(* Trace events.                                                           *)
(***************************************************************************)
E(ev, lvl, name, a, v) == [ev |-> ev, lvl |-> lvl, name |-> name, a |-> a, v |-> v]

Count(tr, P(_)) == Cardinality({i \in DOMAIN tr : P(tr[i])})

(***************************************************************************)
(* The flattened device tree.  A node is an offset 0..3; it carries a      *)
(* phandle and named properties, each a sequence of bytes.                 *)
(***************************************************************************)
Nodes == 0 .. 3
CpuNode == 0
AccNode == 1
ExtraNode == 2
L2Node == 3

PhandleOf(n) == n + 1
DanglingPhandle == 9

\* cpu_to_fdt32: the four big-endian bytes of a 32-bit word.
Cells(w) == << (w \div 16777216) % 256, (w \div 65536) % 256, (w \div 256) % 256, w % 256 >>

\* fdt32_to_cpu: the 32-bit word of four big-endian bytes.
fdt32_to_cpu(b) == b[1] * 16777216 + b[2] * 65536 + b[3] * 256 + b[4]

NoProps == [n \in {} |-> <<>>]

\* libfdt's fdt_getprop: the property's bytes and its byte length, or NULL
\* and a negative error (-FDT_ERR_NOTFOUND).
fdt_getprop(t, node, name) ==
  IF node \in DOMAIN t /\ name \in DOMAIN t[node]
  THEN [val |-> t[node][name], len |-> Len(t[node][name])]
  ELSE [val |-> <<>>, len |-> -1]

\* lk2nd's lkfdt_lookup_phandle: the offset of the node that the phandle
\* property refers to, or a negative error.
lkfdt_lookup_phandle(t, node, prop) ==
  LET p == fdt_getprop(t, node, prop) IN
  IF p.len < 0 THEN p.len
  ELSE IF p.len < 4 THEN -15
  ELSE LET ph == fdt32_to_cpu(SubSeq(p.val, 1, 4))
           hit == {n \in DOMAIN t : PhandleOf(n) = ph}
       IN IF hit = {} THEN -1 ELSE CHOOSE n \in hit : TRUE

\* What a 32-bit load past the end of a property's value can yield: the
\* bytes that follow it in the blob (padding, a structure token, anything).
OobWords == {0, 3, 36864}

\* *(val + index): the word at a word offset of a property value.
LoadWord(val, index) ==
  IF index >= 0 /\ 4 * index + 4 <= Len(val)
  THEN {fdt32_to_cpu(SubSeq(val, 4 * index + 1, 4 * index + 4))}
  ELSE OobWords

(***************************************************************************)
(* Tree Resolver (lk2nd/smp/cpu-boot.c).                                   *)
(***************************************************************************)
\* read_phandle_value_indexed: the word at `index` of property `name`.
read_phandle_value_indexed(t, node, name, index) ==
  LET p == fdt_getprop(t, node, name)
      got == E("fdt_getprop", "", name, node, 0)
  IN IF p.len < 4
     THEN {[ret |-> 0,
            tr |-> <<got, E("dprintf", "CRITICAL", "Cannot read %s property of node: %d", node, p.len)>>]}
     ELSE {[ret |-> w, tr |-> <<got, E("load", "", name, node, index)>>] :
             w \in LoadWord(p.val, index)}

\* A reg lookup that takes the tuple index for the word offset.
used_index_untupled(index) == index

\* used_index of read_phandle_reg_indexed: the word offset of tuple `index`.
used_index(index) == index * 2

\* read_phandle_reg_indexed: the address of tuple `index` of the reg
\* property of the node that property `prop` refers to.
read_phandle_reg_indexed(t, node, prop, index) ==
  LET target == lkfdt_lookup_phandle(t, node, prop)
      look == E("lkfdt_lookup_phandle", "", prop, node, 0)
  IN IF target < 0
     THEN {[ret |-> 0,
            tr |-> <<look, E("dprintf", "CRITICAL", "Cannot find %s node in %s: %d", node, target)>>]}
     ELSE {[ret |-> o.ret, tr |-> <<look>> \o o.tr] :
             o \in read_phandle_value_indexed(t, target, "reg", used_index(index))}

\* read_phandle_value: index 0 of read_phandle_value_indexed.
read_phandle_value(t, node, name) == read_phandle_value_indexed(t, node, name, 0)

\* read_phandle_reg: index 0 of read_phandle_reg_indexed.
read_phandle_reg(t, node, prop) == read_phandle_reg_indexed(t, node, prop, 0)

(***************************************************************************)
(* Trees.  Absent marks a property the node does not have.                 *)
(***************************************************************************)
Absent == <<-1>>

Prop(name, val) == IF val = Absent THEN NoProps ELSE name :> val

MkTree(accRef, accReg, clocksRef, sawRef, nlcRef, l2sawRef, extraReg) ==
  [n \in Nodes |->
     CASE n = CpuNode -> Prop("qcom,acc", accRef) @@ Prop("clocks", clocksRef)
                         @@ Prop("qcom,saw", sawRef) @@ Prop("next-level-cache", nlcRef)
       [] n = AccNode -> Prop("reg", accReg)
       [] n = ExtraNode -> Prop("reg", extraReg)
       [] OTHER -> Prop("qcom,saw", l2sawRef)]

Ref(n) == Cells(PhandleOf(n))

\* reg = <0xf9012000 0x1000>, <0xf900d210 0x8>, scaled to 31 bits.
\* 0x79088000, 0x79098000, 0x7900d000, 0x7900d210
AccBase == 2030600192
AccBase2 == 2030665728
ExtraBase == 2030096384
ExtraBase2 == 2030096912
RegSize == 4096
OnePair(a) == Cells(a) \o Cells(RegSize)
TwoPairs(a, b) == Cells(a) \o Cells(RegSize) \o Cells(b) \o Cells(8)

(***************************************************************************)
(* The resolver applied to drawn inputs.                                   *)
(***************************************************************************)
ResolverRefs == {Absent, Ref(AccNode), Cells(DanglingPhandle), <<0, 2>>}
ResolverRegs == {Absent, <<>>, <<0, 16>>, Cells(AccBase), OnePair(AccBase),
                 TwoPairs(AccBase, AccBase2), Cells(AccBase) \o <<0, 16>>}
ResolverNames == {"qcom,acc", "reg", "clocks"}

ResolverTrees ==
  {MkTree(r, g, Ref(ExtraNode) \o Cells(0), Absent, Absent, Absent,
          TwoPairs(ExtraBase, ExtraBase2) \o OnePair(AccBase2)) :
     r \in ResolverRefs, g \in ResolverRegs}

NoRegs == [a \in {} |-> 0]

InitResolver ==
  /\ dtb \in ResolverTrees
  /\ args \in [node : Nodes, name : ResolverNames, index : 0 .. MaxIndex]
  /\ mpidr_hw = 0
  /\ config = {}
  /\ scm_armv8 = FALSE
  /\ regs = NoRegs
  /\ readback = TRUE
  /\ critical_section_count = 0
  /\ calls = <<>>
  /\ pc = "resolver"

Logged(op, in, o, out) == [op |-> op, in |-> in, ret |-> o.ret, out |-> out, tr |-> o.tr]

ReadValueCall ==
  /\ pc = "resolver"
  /\ Len(calls) < MaxResolverCalls
  /\ \E o \in read_phandle_value_indexed(dtb, args.node, args.name, args.index) :
       calls' = Append(calls, Logged("read_phandle_value_indexed", args, o, ""))
  /\ UNCHANGED <<dtb, mpidr_hw, config, scm_armv8, regs, readback,
                 critical_section_count, args, pc>>

ReadRegCall ==
  /\ pc = "resolver"
  /\ Len(calls) < MaxResolverCalls
  /\ \E o \in read_phandle_reg_indexed(dtb, args.node, args.name, args.index) :
       calls' = Append(calls, Logged("read_phandle_reg_indexed", args, o, ""))
  /\ UNCHANGED <<dtb, mpidr_hw, config, scm_armv8, regs, readback,
                 critical_section_count, args, pc>>

NextResolver == ReadValueCall \/ ReadRegCall

SpecResolver == InitResolver /\ [][NextResolver]_vars

(***************************************************************************)
(* Bit arithmetic on 32-bit words.                                         *)
(***************************************************************************)
BIT(n) == 2 ^ n

RECURSIVE BitAnd(_, _)
BitAnd(x, y) ==
  IF x = 0 \/ y = 0 THEN 0
  ELSE (x % 2) * (y % 2) + 2 * BitAnd(x \div 2, y \div 2)

RECURSIVE BitOr(_, _)
BitOr(x, y) ==
  IF x = 0 THEN y
  ELSE IF y = 0 THEN x
  ELSE (IF x % 2 = 1 \/ y % 2 = 1 THEN 1 ELSE 0) + 2 * BitOr(x \div 2, y \div 2)

\* BITS(x, high, 0): the low high+1 bits of x.
BITS_low(x, high) == x % BIT(high + 1)

(***************************************************************************)
(* Boot-Address Setter.                                                    *)
(***************************************************************************)
QCOM_SCM_BOOT_SET_ADDR == 1
QCOM_SCM_BOOT_FLAG_COLD_ALL_two_cores == BitOr(BitOr(0, BIT(0)), BIT(3))
QCOM_SCM_BOOT_FLAG_COLD_ALL == BitOr(BitOr(BitOr(0, BIT(0)), BIT(3)), BIT(5))
QCOM_SCM_BOOT_SET_ADDR_MC == 17
QCOM_SCM_BOOT_MC_FLAG_AARCH64 == BIT(0)
QCOM_SCM_BOOT_MC_FLAG_COLDBOOT_as_warmboot == BIT(2)
QCOM_SCM_BOOT_MC_FLAG_COLDBOOT == BIT(1)
QCOM_SCM_BOOT_MC_FLAG_WARMBOOT == BIT(2)

\* ~0UL, as the two's complement integer with every bit set.
AllOnes == 0 - 1

\* What a secure-monitor call can return: 0, or a negative error.
ScmResults == {0, 0 - 1}

\* A secure-monitor call with its arguments and the result it gave.
Scm(ev, cmd, nargs, addr, masks, flags, res) ==
  [ev |-> ev, svc |-> "SCM_SVC_BOOT", cmd |-> cmd, nargs |-> nargs,
   addr |-> addr, masks |-> masks, flags |-> flags, res |-> res]

\* A setter that reports success whatever the call returned.
scm_returned_ignored(res) == 0

\* return scm_call2(...), return scm_call_atomic2(...): the call's result.
scm_returned(res) == res

\* cpu_boot_set_addr: one secure-monitor call, modern when the probe
\* reports support and legacy otherwise.
cpu_boot_set_addr(armv8, addr, arm64) ==
  LET aarch64 == IF arm64 THEN QCOM_SCM_BOOT_MC_FLAG_AARCH64 ELSE 0
      arg(r) == Scm("scm_call2", QCOM_SCM_BOOT_SET_ADDR_MC, 6, addr,
                    <<AllOnes, AllOnes, AllOnes, AllOnes>>,
                    BitOr(aarch64, QCOM_SCM_BOOT_MC_FLAG_COLDBOOT), r)
      probe == E("is_scm_armv8_support", "", "", 0, 0)
  IN IF armv8
     THEN {[ret |-> scm_returned(r), out |-> "", tr |-> <<probe, arg(r)>>] : r \in ScmResults}
     ELSE {[ret |-> scm_returned(r), out |-> "",
            tr |-> <<probe,
                     E("dprintf", "INFO", "Falling back to legacy QCOM_SCM_BOOT_SET_ADDR call", 0, 0),
                     Scm("scm_call_atomic2", QCOM_SCM_BOOT_SET_ADDR, 2, addr, <<>>,
                         QCOM_SCM_BOOT_FLAG_COLD_ALL, r)>>] : r \in ScmResults}

(***************************************************************************)
(* Boot Dispatcher.                                                        *)
(***************************************************************************)
\* read_mpidr: the low 24 bits of the MPIDR register.
read_mpidr(hw) == BITS_low(hw, 23)

Flags == {"CPU_BOOT_CORTEX_A", "CPU_BOOT_KPSSV1", "CPU_BOOT_KPSSV2"}

\* A chain whose last branch is taken without being asked for.
Strategy_unconditional_else(cfg) ==
  IF "CPU_BOOT_CORTEX_A" \in cfg THEN "cpu_boot_cortex_a"
  ELSE IF "CPU_BOOT_KPSSV1" \in cfg THEN "cpu_boot_kpssv1"
  ELSE "cpu_boot_kpssv2"

\* The #if / #elif / #else chain of cpu_boot.
Strategy(cfg) ==
  IF "CPU_BOOT_CORTEX_A" \in cfg THEN "cpu_boot_cortex_a"
  ELSE IF "CPU_BOOT_KPSSV1" \in cfg THEN "cpu_boot_kpssv1"
  ELSE IF "CPU_BOOT_KPSSV2" \in cfg THEN "cpu_boot_kpssv2"
  ELSE "#error"

\* The power sequencers cpu_boot calls (cpu_boot_cortex_a, cpu_boot_kpssv1,
\* cpu_boot_kpssv2): the invocation, then register writes to the blocks
\* it was given.
Sequencer(name, reg, extra) ==
  <<E(name, "", "", reg, extra)>>
  \o (IF extra # 0 THEN <<E("writel", "", name, extra, 0)>> ELSE <<>>)
  \o <<E("writel", "", name, reg, 0)>>

SETTLE_US == 100

\* #else #error Unsupported CPU boot method!: the file does not compile.
Built(cfg) == Strategy(cfg) # "#error"

\* A dispatcher that takes every resolved value, zero included, for an address.
Unresolved_ignored(reg) == FALSE

\* if (!acc), if (!extra_reg): zero is the resolution-failed sentinel.
Unresolved(reg) == reg = 0

\* A dispatcher that never recognises the calling core.
IsSelf_unchecked(mpidr, hw) == FALSE

\* if (mpidr == read_mpidr()): the target is the calling core.
IsSelf(mpidr, hw) == mpidr = read_mpidr(hw)

\* A tail that returns as soon as the sequencer has written.
Sequenced_unsettled(tr, name, acc, extra_reg) ==
  [ret |-> TRUE, out |-> "succeeded", tr |-> tr \o Sequencer(name, acc, extra_reg)]

\* The tail of cpu_boot once every address is resolved.
Sequenced(tr, name, acc, extra_reg) ==
  [ret |-> TRUE, out |-> "succeeded",
   tr |-> tr \o Sequencer(name, acc, extra_reg) \o <<E("udelay", "", "", 0, SETTLE_US)>>]

Failed(tr) == [ret |-> FALSE, out |-> "failed", tr |-> tr]

\* A dispatcher whose generic strategy treats the clock reference as required.
cpu_boot_strategy_strict(cfg, t, node, acc, tr) ==
  IF Strategy(cfg) = "cpu_boot_cortex_a"
  THEN {IF Unresolved(x.ret) THEN Failed(tr \o x.tr)
        ELSE Sequenced(tr \o x.tr, "cpu_boot_cortex_a", acc, x.ret) :
          x \in read_phandle_reg(t, node, "clocks")}
  ELSE {}

\* A two-level-cache strategy that looks the SAW up on the core node.
cpu_boot_strategy_core_saw(cfg, t, node, acc, tr) ==
  IF Strategy(cfg) = "cpu_boot_kpssv2"
  THEN LET l2 == lkfdt_lookup_phandle(t, node, "next-level-cache")
           look == tr \o <<E("lkfdt_lookup_phandle", "", "next-level-cache", node, 0)>>
       IN IF l2 < 0
          THEN {Failed(look \o <<E("dprintf", "CRITICAL",
                                   "Cannot find CPU next-level-cache: %d", 0, l2)>>)}
          ELSE {IF Unresolved(x.ret) THEN Failed(look \o x.tr)
                ELSE Sequenced(look \o x.tr, "cpu_boot_kpssv2", acc, x.ret) :
                  x \in read_phandle_reg(t, node, "qcom,saw")}
  ELSE {}

\* cpu_boot after the ACC register is resolved, per compiled-in strategy.
cpu_boot_strategy(cfg, t, node, acc, tr) ==
  CASE Strategy(cfg) = "cpu_boot_cortex_a" ->
         {Sequenced(tr \o x.tr, "cpu_boot_cortex_a", acc, x.ret) :
            x \in read_phandle_reg(t, node, "clocks")}
    [] Strategy(cfg) = "cpu_boot_kpssv1" ->
         {IF Unresolved(x.ret) THEN Failed(tr \o x.tr)
          ELSE Sequenced(tr \o x.tr, "cpu_boot_kpssv1", acc, x.ret) :
            x \in read_phandle_reg(t, node, "qcom,saw")}
    [] Strategy(cfg) = "cpu_boot_kpssv2" ->
         LET l2 == lkfdt_lookup_phandle(t, node, "next-level-cache")
             look == tr \o <<E("lkfdt_lookup_phandle", "", "next-level-cache", node, 0)>>
         IN IF l2 < 0
            THEN {Failed(look \o <<E("dprintf", "CRITICAL",
                                     "Cannot find CPU next-level-cache: %d", 0, l2)>>)}
            ELSE {IF Unresolved(x.ret) THEN Failed(look \o x.tr)
                  ELSE Sequenced(look \o x.tr, "cpu_boot_kpssv2", acc, x.ret) :
                    x \in read_phandle_reg(t, l2, "qcom,saw")}
    [] OTHER -> {}

\* cpu_boot: bring up the core `mpidr` described by tree node `node`.
cpu_boot(cfg, hw, t, node, mpidr) ==
  LET id == <<E("read_mpidr", "", "", 0, read_mpidr(hw))>> IN
  IF IsSelf(mpidr, hw)
  THEN {[ret |-> TRUE, out |-> "skipped",
         tr |-> id \o <<E("dprintf", "INFO", "Skipping boot of current CPU (%x)", 0, mpidr)>>]}
  ELSE UNION {IF Unresolved(a.ret) THEN {Failed(id \o a.tr)}
              ELSE cpu_boot_strategy(cfg, t, node, a.ret,
                     id \o a.tr \o <<E("dprintf", "INFO", "Booting CPU%x @ %#08x", mpidr, a.ret)>>) :
                a \in read_phandle_reg(t, node, "qcom,acc")}

(***************************************************************************)
(* Multi-core bring-up: the boot core programs the shared entry address    *)
(* once, gives up if that fails, and otherwise boots the cores one at a    *)
(* time.                                                                   *)
(***************************************************************************)
BootRefs == {Absent, Ref(AccNode), Cells(DanglingPhandle)}
BootRegs == {Absent, OnePair(0), OnePair(AccBase)}
Optional(val) == {Absent, val}

BootTrees ==
  {MkTree(r, g, c, s, n, l, e) :
     r \in BootRefs, g \in BootRegs, c \in Optional(Ref(ExtraNode) \o Cells(0)),
     s \in Optional(Ref(ExtraNode)), n \in Optional(Ref(L2Node)),
     l \in Optional(Ref(ExtraNode)), e \in Optional(OnePair(ExtraBase))}

\* MPIDR register values: core 0, and core 1 with the multiprocessing
\* extension bit set above the affinity fields.
MpidrValues == {0, BIT(30) + 1}
Targets == {0, 1}
EntryAddr == 2097152

Boots(log) == Count(log, LAMBDA c : c.op = "cpu_boot")

Init ==
  /\ dtb \in BootTrees
  /\ mpidr_hw \in MpidrValues
  /\ config \in SUBSET Flags
  /\ scm_armv8 \in BOOLEAN
  /\ args = [node |-> CpuNode]
  /\ regs = NoRegs
  /\ readback = TRUE
  /\ critical_section_count = 0
  /\ calls = <<>>
  /\ pc = "start"

\* After a call of cpu_boot_set_addr: carry on only if it succeeded.
AfterSetAddr(ret) == IF ret = 0 THEN "cores" ELSE "abort"

\* Where cpu_boot_set_addr may be called from.
MaySetAddr(at) == at = "start"

\* A caller that boots cores without programming the entry address first.
MayBoot_early(at) == at \in {"start", "cores"}

\* Where cpu_boot may be called from.
MayBoot(at) == at = "cores"

SetAddr ==
  /\ Built(config)
  /\ MaySetAddr(pc)
  /\ \E arm64 \in BOOLEAN :
       \E o \in cpu_boot_set_addr(scm_armv8, EntryAddr, arm64) :
         /\ calls' = Append(calls, Logged("cpu_boot_set_addr",
                                          [addr |-> EntryAddr, arm64 |-> arm64], o, ""))
         /\ pc' = AfterSetAddr(o.ret)
  /\ UNCHANGED <<dtb, mpidr_hw, config, scm_armv8, regs, readback,
                 critical_section_count, args>>

BootCore ==
  /\ Built(config)
  /\ MayBoot(pc)
  /\ Boots(calls) < MaxBoots
  /\ \E mpidr \in Targets :
       \E o \in cpu_boot(config, mpidr_hw, dtb, args.node, mpidr) :
         calls' = Append(calls, Logged("cpu_boot", [node |-> args.node, mpidr |-> mpidr],
                                       o, o.out))
  /\ UNCHANGED <<dtb, mpidr_hw, config, scm_armv8, regs, readback,
                 critical_section_count, args, pc>>

Next == SetAddr \/ BootCore

Spec == Init /\ [][Next]_vars

(***************************************************************************)
(* The msm8994 power sequencer (lk2nd/smp/gpl/cortex-a-msm8994.c).         *)
(***************************************************************************)
CPU_PWR_CTL == 4
APC_PWR_GATE_CTL == 20
L1_RST_DIS == 644
L2_VREG_CTL == 28
L2_PWR_CTL == 20
L2_PWR_CTL_OVERRIDE == 12
L2_PWR_STATUS_L2_HS_STS_MSM8994 == BitOr(BIT(9), BIT(28))
REGULATOR_SETUP_VOLTAGE_TIMEOUT == 2000

writel(v, addr) == E("writel", "", "", addr, v)
readl(hw, addr) == E("readl", "", "", addr, IF addr \in DOMAIN hw THEN hw[addr] ELSE 0)
dsb == E("dsb", "", "", 0, 0)
udelay(us) == E("udelay", "", "", 0, us)
enter_critical_section == E("enter_critical_section", "", "", 0, 0)
exit_critical_section == E("exit_critical_section", "", "", 0, 0)

\* A rail power-up that writes the voltage value as it was given.
msm_spm_turn_on_cpu_rail_untruncated(vctl_base_0, vctl_base_1, vctl_val) ==
  (IF vctl_base_1 # 0 THEN <<writel(2, vctl_base_1), dsb>> ELSE <<>>)
  \o <<writel(vctl_val, vctl_base_0 + L2_VREG_CTL), dsb,
       udelay(REGULATOR_SETUP_VOLTAGE_TIMEOUT),
       writel(196736, vctl_base_0 + L2_VREG_CTL), dsb,
       udelay(REGULATOR_SETUP_VOLTAGE_TIMEOUT)>>

\* msm_spm_turn_on_cpu_rail: program and enable the CPU supply regulator.
msm_spm_turn_on_cpu_rail(vctl_base_0, vctl_base_1, vctl_val) ==
  (IF vctl_base_1 # 0 THEN <<writel(2, vctl_base_1), dsb>> ELSE <<>>)
  \o <<writel(BitAnd(vctl_val, 255), vctl_base_0 + L2_VREG_CTL), dsb,
       udelay(REGULATOR_SETUP_VOLTAGE_TIMEOUT),
       writel(196736, vctl_base_0 + L2_VREG_CTL), dsb,
       udelay(REGULATOR_SETUP_VOLTAGE_TIMEOUT)>>

\* A status check that looks at the override register.
l2_status_reg_override(l2ccc_base) == l2ccc_base + L2_PWR_CTL_OVERRIDE

\* The register power_on_l2_cache_msm8994 reads for the power status.
l2_status_reg(l2ccc_base) == l2ccc_base + L2_PWR_CTL

\* The cache writes of power_on_l2_cache_msm8994, inside its critical section.
l2_cache_writes(l2ccc_base) ==
  <<writel(0, l2ccc_base + L1_RST_DIS), dsb,
    writel(4194304, l2ccc_base + L2_PWR_CTL_OVERRIDE), dsb,
    writel(169750, l2ccc_base + L2_PWR_CTL), dsb, udelay(8),
    writel(145174, l2ccc_base + L2_PWR_CTL), dsb,
    writel(145182, l2ccc_base + L2_PWR_CTL), dsb, udelay(8),
    writel(145180, l2ccc_base + L2_PWR_CTL), dsb, udelay(4),
    writel(144924, l2ccc_base + L2_PWR_CTL), dsb, udelay(2),
    writel(139800, l2ccc_base + L2_PWR_CTL), dsb, udelay(4),
    writel(268575256, l2ccc_base + L2_PWR_CTL), dsb,
    writel(0, l2ccc_base + L2_PWR_CTL_OVERRIDE), dsb>>

\* power_on_l2_cache_msm8994: power the rail and the L2 cache up unless the
\* status read says the cache is already on.
power_on_l2_cache_msm8994(hw, l2ccc_base, vctl_base_0, vctl_base_1, vctl_val) ==
  LET status == readl(hw, l2_status_reg(l2ccc_base)) IN
  IF BitAnd(status.v, L2_PWR_STATUS_L2_HS_STS_MSM8994) # 0
  THEN <<status>>
  ELSE <<status>>
       \o msm_spm_turn_on_cpu_rail(vctl_base_0, vctl_base_1, vctl_val)
       \o <<E("dprintf", "INFO", "Powering on L2 cache @ %#08x", 0, l2ccc_base),
            enter_critical_section>>
       \o l2_cache_writes(l2ccc_base)
       \o <<exit_critical_section>>

\* Core-enable writes with the barrier between the two clamp writes left out.
core_enable_writes_unbarriered(base) ==
  <<writel(1, base + APC_PWR_GATE_CTL), dsb, udelay(1),
    writel(3, base + APC_PWR_GATE_CTL), dsb, udelay(1),
    writel(121, base + CPU_PWR_CTL), dsb, udelay(2),
    writel(125, base + CPU_PWR_CTL), dsb, udelay(2),
    writel(61, base + CPU_PWR_CTL),
    writel(60, base + CPU_PWR_CTL), dsb, udelay(1),
    writel(12, base + CPU_PWR_CTL), dsb,
    writel(140, base + CPU_PWR_CTL), dsb>>

\* The core-enable writes of cpu_boot_cortex_a_msm8994.
core_enable_writes(base) ==
  <<writel(1, base + APC_PWR_GATE_CTL), dsb, udelay(1),
    writel(3, base + APC_PWR_GATE_CTL), dsb, udelay(1),
    writel(121, base + CPU_PWR_CTL), dsb, udelay(2),
    writel(125, base + CPU_PWR_CTL), dsb, udelay(2),
    writel(61, base + CPU_PWR_CTL), dsb,
    writel(60, base + CPU_PWR_CTL), dsb, udelay(1),
    writel(12, base + CPU_PWR_CTL), dsb,
    writel(140, base + CPU_PWR_CTL), dsb>>

\* A sequencer that takes its critical section before the cache phase.
cpu_boot_cortex_a_msm8994_nested(hw, base, l2ccc_base, vctl_base_0, vctl_base_1, vctl_val) ==
  <<enter_critical_section>>
  \o (IF l2ccc_base # 0
      THEN power_on_l2_cache_msm8994(hw, l2ccc_base, vctl_base_0, vctl_base_1, vctl_val)
      ELSE <<>>)
  \o core_enable_writes(base)
  \o <<exit_critical_section>>

\* A sequencer that enables the core before it powers the cache.
cpu_boot_cortex_a_msm8994_core_first(hw, base, l2ccc_base, vctl_base_0, vctl_base_1, vctl_val) ==
  <<enter_critical_section>>
  \o core_enable_writes(base)
  \o <<exit_critical_section>>
  \o (IF l2ccc_base # 0
      THEN power_on_l2_cache_msm8994(hw, l2ccc_base, vctl_base_0, vctl_base_1, vctl_val)
      ELSE <<>>)

\* A sequencer that leaves its critical section before the core writes.
cpu_boot_cortex_a_msm8994_early_exit(hw, base, l2ccc_base, vctl_base_0, vctl_base_1, vctl_val) ==
  (IF l2ccc_base # 0
   THEN power_on_l2_cache_msm8994(hw, l2ccc_base, vctl_base_0, vctl_base_1, vctl_val)
   ELSE <<>>)
  \o <<enter_critical_section, exit_critical_section>>
  \o core_enable_writes(base)

\* cpu_boot_cortex_a_msm8994: the cache phase when an L2 controller is
\* given, then the core-enable phase.
cpu_boot_cortex_a_msm8994(hw, base, l2ccc_base, vctl_base_0, vctl_base_1, vctl_val) ==
  (IF l2ccc_base # 0
   THEN power_on_l2_cache_msm8994(hw, l2ccc_base, vctl_base_0, vctl_base_1, vctl_val)
   ELSE <<>>)
  \o <<enter_critical_section>>
  \o core_enable_writes(base)
  \o <<exit_critical_section>>

(***************************************************************************)
(* The hardware the sequencer drives.                                      *)
(***************************************************************************)
RECURSIVE Written(_, _)
\* The registers after the writes of a trace, in order.
Written(hw, tr) ==
  IF tr = <<>> THEN hw
  ELSE LET e == Head(tr) IN
       Written(IF e.ev = "writel" THEN (e.a :> e.v) @@ hw ELSE hw, Tail(tr))

\* The registers after a trace: a register reads back the last value
\* written to it, except that with `rb` false the status read is driven by
\* the hardware and keeps reporting what it did.
RegsAfter(hw, rb, tr, status_reg) ==
  IF rb \/ status_reg \notin DOMAIN hw THEN Written(hw, tr)
  ELSE (status_reg :> hw[status_reg]) @@ Written(hw, tr)

\* The register in which the L2 controller shows its power status.
PowerStatusReg(l2ccc_base) == l2ccc_base + L2_PWR_CTL

\* enter_critical_section / exit_critical_section on critical_section_count.
Depth(d, tr, k) ==
  d + Cardinality({j \in 1 .. (k - 1) : tr[j].ev = "enter_critical_section"})
    - Cardinality({j \in 1 .. (k - 1) : tr[j].ev = "exit_critical_section"})

L2Base == 2030096384
VctlBase0 == 2030116864
VctlBase1 == 2030096912
StatusValues == {0, BIT(9), BIT(28), BIT(9) + BIT(28), 6}
VctlValues == {50, 421}

InitSeq ==
  /\ dtb = [n \in Nodes |-> NoProps]
  /\ mpidr_hw = 0
  /\ config = {}
  /\ scm_armv8 = FALSE
  /\ args = [l2ccc_base |-> L2Base]
  /\ regs \in {PowerStatusReg(L2Base) :> st : st \in StatusValues}
  /\ readback \in BOOLEAN
  /\ critical_section_count = 0
  /\ calls = <<>>
  /\ pc = "family_b"

SeqCall ==
  /\ pc = "family_b"
  /\ Len(calls) < MaxSeqCalls
  /\ \E base \in {AccBase, AccBase2}, l2 \in {0, args.l2ccc_base},
        v1 \in {0, VctlBase1}, val \in VctlValues :
       LET tr == cpu_boot_cortex_a_msm8994(regs, base, l2, VctlBase0, v1, val) IN
       /\ calls' = Append(calls,
                          [op |-> "cpu_boot_cortex_a_msm8994",
                           in |-> [base |-> base, l2ccc_base |-> l2, vctl_base_0 |-> VctlBase0,
                                   vctl_base_1 |-> v1, vctl_val |-> val,
                                   depth |-> critical_section_count],
                           ret |-> 0, out |-> "", tr |-> tr, hw |-> regs])
       /\ regs' = RegsAfter(regs, readback, tr, PowerStatusReg(args.l2ccc_base))
       /\ critical_section_count' = Depth(critical_section_count, tr, Len(tr) + 1)
  /\ UNCHANGED <<dtb, mpidr_hw, config, scm_armv8, readback, args, pc>>

NextSeq == SeqCall

SpecSeq == InitSeq /\ [][NextSeq]_vars

(***************************************************************************)
(* Properties.                                                             *)
(***************************************************************************)
IsCritical(e) == e.ev = "dprintf" /\ e.lvl = "CRITICAL"
IsLoad(e) == e.ev = "load"
IsGetprop(e) == e.ev = "fdt_getprop"

\* The number of whole 32-bit words of a property; -1 when it is absent.
WordsOf(t, node, name) ==
  IF fdt_getprop(t, node, name).len < 0 THEN -1 ELSE fdt_getprop(t, node, name).len \div 4

\* A word load of the trace that reaches past the end of its property.
LoadsBeyond(t, tr) ==
  {i \in DOMAIN tr : IsLoad(tr[i]) /\ tr[i].v >= WordsOf(t, tr[i].a, tr[i].name)}

\* C1: whenever the property is absent or holds fewer than index+1 words,
\* read_phandle_value_indexed returns 0, logs exactly one critical
\* diagnostic and loads no word beyond the end of the property.
C1_ShortPropertyFails ==
  \A i \in DOMAIN calls :
    LET c == calls[i] IN
    (c.op = "read_phandle_value_indexed"
       /\ WordsOf(dtb, c.in.node, c.in.name) < c.in.index + 1)
    => /\ c.ret = 0
       /\ Count(c.tr, IsCritical) = 1
       /\ LoadsBeyond(dtb, c.tr) = {}

\* The address cell of the i-th (address, size) pair of a reg value.
PairAddress(val, i) == fdt32_to_cpu(SubSeq(val, 8 * i + 1, 8 * i + 4))

\* C7: read_phandle_reg_indexed with tuple index i returns the address of
\* the i-th (address, size) pair of the referenced node's reg whenever that
\* pair is present, and when the reference does not resolve it returns 0,
\* logs one critical diagnostic and reads no reg property.
C7_RegTupleAddress ==
  \A i \in DOMAIN calls :
    LET c == calls[i]
        target == lkfdt_lookup_phandle(dtb, c.in.node, c.in.name)
    IN c.op = "read_phandle_reg_indexed"
       => /\ (target >= 0 /\ fdt_getprop(dtb, target, "reg").len >= 8 * (c.in.index + 1))
             => c.ret = PairAddress(fdt_getprop(dtb, target, "reg").val, c.in.index)
          /\ target < 0
             => /\ c.ret = 0
                /\ Count(c.tr, IsCritical) = 1
                /\ Count(c.tr, IsGetprop) = 0
                /\ Count(c.tr, IsLoad) = 0

\* A second pair's address was returned for tuple index 1.
C7_Witness ==
  \E i \in DOMAIN calls :
    /\ calls[i].op = "read_phandle_reg_indexed"
    /\ calls[i].in.index = 1
    /\ calls[i].in.name = "qcom,acc"
    /\ calls[i].ret = AccBase2
    /\ Count(calls[i].tr, IsLoad) = 1

IsWrite(e) == e.ev = "writel"
IsDelay(e) == e.ev = "udelay"
IsSequencer(e) == e.ev \in {"cpu_boot_cortex_a", "cpu_boot_kpssv1", "cpu_boot_kpssv2"}
IsResolution(e) == e.ev \in {"lkfdt_lookup_phandle", "fdt_getprop", "load"}
IsScm(e) == e.ev \in {"scm_call2", "scm_call_atomic2"}
IsFallbackLog(e) ==
  e.ev = "dprintf" /\ e.lvl = "INFO"
    /\ e.name = "Falling back to legacy QCOM_SCM_BOOT_SET_ADDR call"

\* The identifier the calling core reads: MPIDR bits 23..0.
CallerId == mpidr_hw % 16777216

\* The value the qcom,acc reference of a node resolves to: the first word
\* of the reg property of the node its phandle names, 0 when any is missing.
AccOf(t, node) ==
  IF "qcom,acc" \notin DOMAIN t[node] \/ Len(t[node]["qcom,acc"]) < 4 THEN 0
  ELSE LET ph == fdt32_to_cpu(SubSeq(t[node]["qcom,acc"], 1, 4))
           hit == {n \in DOMAIN t : PhandleOf(n) = ph}
       IN IF hit = {} THEN 0
          ELSE LET n == CHOOSE n \in hit : TRUE
               IN IF "reg" \notin DOMAIN t[n] \/ Len(t[n]["reg"]) < 4 THEN 0
                  ELSE PairAddress(t[n]["reg"], 0)

\* C2: a cpu_boot whose target equals the identifier read from the hardware
\* ends skipped with no resolution, no sequencer, no register write and no
\* delay, and every cpu_boot reads the identifier before anything else.
C2_SelfSkipped ==
  \A i \in DOMAIN calls :
    LET c == calls[i] IN
    c.op = "cpu_boot"
    => /\ c.tr[1].ev = "read_mpidr"
       /\ c.in.mpidr = CallerId
          => /\ c.out = "skipped"
             /\ c.ret = TRUE
             /\ Count(c.tr, IsResolution) = 0
             /\ Count(c.tr, IsSequencer) = 0
             /\ Count(c.tr, IsWrite) = 0
             /\ Count(c.tr, IsDelay) = 0

\* A self-targeting call was skipped although its tree resolves.
C2_Witness ==
  \E i \in DOMAIN calls :
    /\ calls[i].op = "cpu_boot"
    /\ calls[i].in.mpidr = CallerId
    /\ calls[i].out = "skipped"
    /\ AccOf(dtb, calls[i].in.node) = AccBase

\* C3: under every strategy, a cpu_boot of another core whose qcom,acc
\* reference does not resolve, or resolves to zero, returns failed without
\* invoking a sequencer and without a register write.
C3_MissingAccFails ==
  \A i \in DOMAIN calls :
    LET c == calls[i] IN
    (c.op = "cpu_boot" /\ c.in.mpidr # CallerId /\ AccOf(dtb, c.in.node) = 0)
    => /\ c.out = "failed"
       /\ c.ret = FALSE
       /\ Count(c.tr, IsSequencer) = 0
       /\ Count(c.tr, IsWrite) = 0

\* A call failed on a reg whose address cell is zero, under the two-level
\* cache strategy.
C3_Witness ==
  \E i \in DOMAIN calls :
    /\ calls[i].op = "cpu_boot"
    /\ calls[i].out = "failed"
    /\ config = {"CPU_BOOT_KPSSV2"}
    /\ fdt_getprop(dtb, AccNode, "reg").len = 8
    /\ lkfdt_lookup_phandle(dtb, calls[i].in.node, "qcom,acc") = AccNode
    /\ AccOf(dtb, calls[i].in.node) = 0

\* C8: without modern-ABI support cpu_boot_set_addr issues exactly one
\* secure-monitor call, the legacy SCM_SVC_BOOT / SET_ADDR call with flags
\* bit 0, bit 3 and bit 5 and the supplied address, and logs the fallback
\* diagnostic exactly once.
C8_LegacyFallback ==
  \A i \in DOMAIN calls :
    LET c == calls[i]
        scm == {k \in DOMAIN c.tr : IsScm(c.tr[k])}
    IN (c.op = "cpu_boot_set_addr" /\ ~scm_armv8)
       => /\ Cardinality(scm) = 1
          /\ \A k \in scm :
               /\ c.tr[k].ev = "scm_call_atomic2"
               /\ c.tr[k].svc = "SCM_SVC_BOOT"
               /\ c.tr[k].cmd = 1
               /\ c.tr[k].flags = 1 + 8 + 32
               /\ c.tr[k].addr = c.in.addr
          /\ Count(c.tr, IsFallbackLog) = 1

\* The legacy call was issued.
C8_Witness ==
  \E i \in DOMAIN calls :
    /\ calls[i].op = "cpu_boot_set_addr"
    /\ ~scm_armv8
    /\ \E k \in DOMAIN calls[i].tr : calls[i].tr[k].ev = "scm_call_atomic2"

\* C9: under the generic strategy, with qcom,acc resolving to a non-zero
\* address and no clocks property, cpu_boot of another core invokes
\* cpu_boot_cortex_a once with that address and a zero second address,
\* then waits the settle delay and returns succeeded.
C9_OptionalClockMissing ==
  \A i \in DOMAIN calls :
    LET c == calls[i]
        seq == {k \in DOMAIN c.tr : IsSequencer(c.tr[k])}
    IN (c.op = "cpu_boot" /\ "CPU_BOOT_CORTEX_A" \in config /\ c.in.mpidr # CallerId
          /\ AccOf(dtb, c.in.node) # 0 /\ "clocks" \notin DOMAIN dtb[c.in.node])
       => /\ c.out = "succeeded"
          /\ c.ret = TRUE
          /\ Cardinality(seq) = 1
          /\ \A k \in seq :
               /\ c.tr[k].ev = "cpu_boot_cortex_a"
               /\ c.tr[k].a = AccOf(dtb, c.in.node)
               /\ c.tr[k].v = 0
               /\ k < Len(c.tr)
          /\ c.tr[Len(c.tr)].ev = "udelay"
          /\ c.tr[Len(c.tr)].v = 100
          /\ Count(c.tr, IsDelay) = 1

\* A core was booted with the control register alone.
C9_Witness ==
  \E i \in DOMAIN calls :
    /\ calls[i].op = "cpu_boot"
    /\ calls[i].out = "succeeded"
    /\ "clocks" \notin DOMAIN dtb[calls[i].in.node]
    /\ \E k \in DOMAIN calls[i].tr :
         calls[i].tr[k].ev = "cpu_boot_cortex_a" /\ calls[i].tr[k].a = AccBase
           /\ calls[i].tr[k].v = 0

\* C10: cpu_boot_set_addr is never called twice, and every cpu_boot that
\* invokes a sequencer comes after a returned call of cpu_boot_set_addr,
\* which is then the only one.
C10_SetAddrFirst ==
  /\ Count(calls, LAMBDA c : c.op = "cpu_boot_set_addr") <= 1
  /\ \A i \in DOMAIN calls :
       (calls[i].op = "cpu_boot" /\ Count(calls[i].tr, IsSequencer) > 0)
       => /\ \E j \in 1 .. (i - 1) : calls[j].op = "cpu_boot_set_addr"
          /\ Count(calls, LAMBDA c : c.op = "cpu_boot_set_addr") = 1

\* A sequencer ran after the entry address was programmed.
C10_Witness ==
  \E i \in DOMAIN calls :
    /\ calls[i].op = "cpu_boot"
    /\ Count(calls[i].tr, IsSequencer) = 1
    /\ calls[1].op = "cpu_boot_set_addr"

IsFamilyB(c) == c.op = "cpu_boot_cortex_a_msm8994"
HasBit(x, n) == (x \div (2 ^ n)) % 2 = 1

\* The positions of a Family-B call's trace that write a rail register, a
\* cache register, a core register; the position of its status read.
RailWrites(c) ==
  {k \in DOMAIN c.tr : IsWrite(c.tr[k])
     /\ c.tr[k].a \in {c.in.vctl_base_1, c.in.vctl_base_0 + 28}}
CacheWrites(c) ==
  {k \in DOMAIN c.tr : IsWrite(c.tr[k])
     /\ c.tr[k].a \in {c.in.l2ccc_base + 644, c.in.l2ccc_base + 12, c.in.l2ccc_base + 20}}
CoreWrites(c) ==
  {k \in DOMAIN c.tr : IsWrite(c.tr[k]) /\ c.tr[k].a \in {c.in.base + 20, c.in.base + 4}}
StatusReads(c) ==
  {k \in DOMAIN c.tr : c.tr[k].ev = "readl" /\ c.tr[k].a = c.in.l2ccc_base + 20}

\* The cache phase of a call ran in full, or not at all.
FullPhase(c) ==
  /\ Cardinality(CacheWrites(c)) = 10
  /\ Cardinality(RailWrites(c)) = 2 + (IF c.in.vctl_base_1 # 0 THEN 1 ELSE 0)
NoPhase(c) == CacheWrites(c) = {} /\ RailWrites(c) = {}

\* The status is read before any rail or cache write.
StatusReadFirst(c) ==
  \A k \in RailWrites(c) \cup CacheWrites(c) : \E r \in StatusReads(c) : r < k

\* C4: the sequencer reads the power status before any rail or cache write,
\* and with an L2 controller given the cache phase is skipped when bit 9
\* and bit 28 of the status are both set and runs in full when either bit
\* is clear.
C4_SkipIffBothBits ==
  \A i \in DOMAIN calls :
    LET c == calls[i] IN
    (IsFamilyB(c) /\ c.in.l2ccc_base # 0)
    => /\ StatusReadFirst(c)
       /\ \A r \in StatusReads(c) :
            IF HasBit(c.tr[r].v, 9) /\ HasBit(c.tr[r].v, 28)
            THEN NoPhase(c) ELSE FullPhase(c)

\* C5: every register write of the sequencer happens with the critical
\* section count above its value at entry.
C5_AllWritesGuarded ==
  \A i \in DOMAIN calls :
    LET c == calls[i] IN
    IsFamilyB(c)
    => \A k \in DOMAIN c.tr : IsWrite(c.tr[k]) => Depth(c.in.depth, c.tr, k) > c.in.depth

\* C5, as the code has it: every cache and core register write happens
\* inside a critical section that is entered before the phase's first
\* write and left after its last, and the rail writes happen before the
\* cache phase's critical section is entered, outside any.
C5_CacheAndCoreWritesGuarded ==
  \A i \in DOMAIN calls :
    LET c == calls[i]
        inside(k) == Depth(c.in.depth, c.tr, k) > c.in.depth
    IN IsFamilyB(c)
       => /\ \A k \in CacheWrites(c) \cup CoreWrites(c) : inside(k)
          /\ \A k \in RailWrites(c) : ~inside(k)
          /\ \A k \in DOMAIN c.tr :
               IsWrite(c.tr[k]) => k \in CacheWrites(c) \cup CoreWrites(c) \cup RailWrites(c)
          /\ Depth(c.in.depth, c.tr, Len(c.tr) + 1) = c.in.depth

\* A call wrote the rail, the cache and the core registers.
C5_Witness ==
  \E i \in DOMAIN calls :
    /\ IsFamilyB(calls[i])
    /\ Cardinality(RailWrites(calls[i])) = 3
    /\ Cardinality(CacheWrites(calls[i])) = 10
    /\ Cardinality(CoreWrites(calls[i])) = 8

\* The power status of the cluster's L2 controller when a call was made.
StatusBefore(c) == c.hw[args.l2ccc_base + 20]

\* C6: a call made while the status reports the cache on (bit 9 and bit 28
\* set) writes no rail and no cache register; and of two consecutive calls
\* for the same L2 controller, the first made with both bits clear and the
\* status register reading back what was written to it, the first runs the
\* rail and cache sequence in full and the second reads the status and
\* skips it.
C6_CachePhaseIdempotent ==
  /\ \A i \in DOMAIN calls :
       LET c == calls[i] IN
       (IsFamilyB(c) /\ HasBit(StatusBefore(c), 9) /\ HasBit(StatusBefore(c), 28))
       => NoPhase(c)
  /\ \A i \in DOMAIN calls :
       (/\ i + 1 \in DOMAIN calls
        /\ IsFamilyB(calls[i]) /\ IsFamilyB(calls[i + 1])
        /\ readback
        /\ calls[i].in.l2ccc_base = args.l2ccc_base
        /\ calls[i + 1].in.l2ccc_base = args.l2ccc_base
        /\ ~HasBit(StatusBefore(calls[i]), 9) /\ ~HasBit(StatusBefore(calls[i]), 28))
       => /\ FullPhase(calls[i])
          /\ NoPhase(calls[i + 1])
          /\ StatusReads(calls[i + 1]) # {}

\* Two calls on a powered-off cache: the second one skipped the phase.
C6_Witness ==
  /\ Len(calls) = 2
  /\ readback
  /\ FullPhase(calls[1])
  /\ calls[2].in.l2ccc_base = L2Base
  /\ NoPhase(calls[2])
  /\ \E r \in StatusReads(calls[2]) : calls[2].tr[r].v = 268575256

\* The node a phandle property of a node names, -1 when there is none.
RefNode(t, node, prop) ==
  IF prop \notin DOMAIN t[node] \/ Len(t[node][prop]) < 4 THEN -1
  ELSE LET ph == fdt32_to_cpu(SubSeq(t[node][prop], 1, 4))
           hit == {n \in DOMAIN t : PhandleOf(n) = ph}
       IN IF hit = {} THEN -1 ELSE CHOOSE n \in hit : TRUE

\* The first reg address of the node a phandle property names, 0 when the
\* reference or the reg is missing.
RefReg(t, node, prop) ==
  LET n == RefNode(t, node, prop) IN
  IF n < 0 THEN 0
  ELSE IF "reg" \notin DOMAIN t[n] \/ Len(t[n]["reg"]) < 4 THEN 0
  ELSE PairAddress(t[n]["reg"], 0)

NothingPowered(c) ==
  /\ c.out = "failed"
  /\ c.ret = FALSE
  /\ Count(c.tr, IsSequencer) = 0
  /\ Count(c.tr, IsWrite) = 0

\* C11: in a cpu_boot every tree resolution precedes the first register
\* write; under the single-sequence strategy a missing SAW reference, and
\* under the two-level-cache strategy a missing next-level-cache node or a
\* missing SAW reference on that cache node, ends in failed with no
\* sequencer and no register write, the SAW being looked up on the cache
\* node and never on the core node.
C11_ResolveBeforeWrite ==
  \A i \in DOMAIN calls :
    LET c == calls[i]
        other == c.in.mpidr # CallerId /\ AccOf(dtb, c.in.node) # 0
        v1 == "CPU_BOOT_CORTEX_A" \notin config /\ "CPU_BOOT_KPSSV1" \in config
        v2 == config = {"CPU_BOOT_KPSSV2"}
        l2 == RefNode(dtb, c.in.node, "next-level-cache")
    IN c.op = "cpu_boot"
       => /\ \A k \in DOMAIN c.tr : \A j \in DOMAIN c.tr :
               (IsWrite(c.tr[k]) /\ IsResolution(c.tr[j])) => j < k
          /\ (other /\ v1 /\ RefReg(dtb, c.in.node, "qcom,saw") = 0) => NothingPowered(c)
          /\ (other /\ v2 /\ l2 < 0) => NothingPowered(c)
          /\ (other /\ v2 /\ l2 >= 0)
             => /\ RefReg(dtb, l2, "qcom,saw") = 0 => NothingPowered(c)
                /\ \A k \in DOMAIN c.tr :
                     (c.tr[k].ev = "lkfdt_lookup_phandle" /\ c.tr[k].name = "qcom,saw")
                     => c.tr[k].a = l2

\* The two-level-cache strategy failed on a cache node without a SAW
\* although the core node has one.
C11_Witness ==
  \E i \in DOMAIN calls :
    /\ calls[i].op = "cpu_boot"
    /\ config = {"CPU_BOOT_KPSSV2"}
    /\ calls[i].out = "failed"
    /\ AccOf(dtb, calls[i].in.node) # 0
    /\ RefReg(dtb, CpuNode, "qcom,saw") # 0
    /\ RefNode(dtb, CpuNode, "next-level-cache") = L2Node
    /\ RefReg(dtb, L2Node, "qcom,saw") = 0

\* C12: a cpu_boot_set_addr makes exactly one secure-monitor call, modern
\* or legacy, and returns what that call returned, so a failing call is a
\* failing cpu_boot_set_addr.
C12_ScmResultSurfaced ==
  \A i \in DOMAIN calls :
    LET c == calls[i]
        scm == {k \in DOMAIN c.tr : IsScm(c.tr[k])}
    IN c.op = "cpu_boot_set_addr"
       => /\ Cardinality(scm) = 1
          /\ \A k \in scm : c.ret = c.tr[k].res
          /\ \A k \in scm : c.tr[k].res # 0 => c.ret # 0

\* A failing modern call came back as a failure.
C12_Witness ==
  \E i \in DOMAIN calls :
    /\ calls[i].op = "cpu_boot_set_addr"
    /\ calls[i].ret < 0
    /\ \E k \in DOMAIN calls[i].tr :
         calls[i].tr[k].ev = "scm_call2" /\ calls[i].tr[k].res < 0

\* The writes of a trace, in order, as <<address, value>> pairs.
WritesOf(tr) ==
  LET w == SelectSeq(tr, IsWrite) IN [k \in 1 .. Len(w) |-> <<w[k].a, w[k].v>>]

\* The order in which the three phases write their registers, by offset
\* from the base each was given.
RailOrder(c) ==
  (IF c.in.vctl_base_1 # 0 THEN <<c.in.vctl_base_1>> ELSE <<>>)
  \o <<c.in.vctl_base_0 + 28, c.in.vctl_base_0 + 28>>
CacheOrder(c) ==
  [k \in 1 .. 10 |-> c.in.l2ccc_base + <<644, 12, 20, 20, 20, 20, 20, 20, 20, 12>>[k]]
CoreOrder(c) == [k \in 1 .. 8 |-> c.in.base + <<20, 20, 4, 4, 4, 4, 4, 4>>[k]]

\* C13: the writes of the msm8994 sequencer go to the rail, the cache and
\* the core registers in that fixed order, and each write is followed at
\* once by a barrier, before any other write, delay or critical-section
\* exit.
C13_OrderedAndBarriered ==
  \A i \in DOMAIN calls :
    LET c == calls[i]
        to == [k \in 1 .. Len(WritesOf(c.tr)) |-> WritesOf(c.tr)[k][1]]
    IN IsFamilyB(c)
       => /\ \A k \in DOMAIN c.tr :
               IsWrite(c.tr[k]) => (k < Len(c.tr) /\ c.tr[k + 1].ev = "dsb")
          /\ to \in {CoreOrder(c), RailOrder(c) \o CacheOrder(c) \o CoreOrder(c)}

\* A call that wrote all three phases, 21 writes and as many barriers.
C13_Witness ==
  \E i \in DOMAIN calls :
    /\ IsFamilyB(calls[i])
    /\ Len(WritesOf(calls[i].tr)) = 21
    /\ Count(calls[i].tr, LAMBDA e : e.ev = "dsb") = 21

\* C14: the build is accepted, and the program runs, exactly when one of
\* the three strategy flags is selected.
C14_ExactlyOneStrategy ==
  /\ calls # <<>> => Cardinality(config) = 1
  /\ Cardinality(config) = 1 => Built(config)

\* The first selected flag in the order of the #if chain.
FirstSelected(cfg) ==
  IF "CPU_BOOT_CORTEX_A" \in cfg THEN "cpu_boot_cortex_a"
  ELSE IF "CPU_BOOT_KPSSV1" \in cfg THEN "cpu_boot_kpssv1"
  ELSE "cpu_boot_kpssv2"

\* C14, as the code has it: the build fails exactly when no strategy flag
\* is selected; with more than one selected it is accepted and compiles in
\* the first of CPU_BOOT_CORTEX_A, CPU_BOOT_KPSSV1, CPU_BOOT_KPSSV2.
C14_NoneIsTheOnlyError ==
  /\ config = {} => calls = <<>>
  /\ config # {} => Built(config)
  /\ \A i \in DOMAIN calls : \A k \in DOMAIN calls[i].tr :
       (calls[i].op = "cpu_boot" /\ IsSequencer(calls[i].tr[k]))
       => calls[i].tr[k].ev = FirstSelected(config)

\* A build with two flags ran the single-sequence strategy.
C14_Witness ==
  /\ config = {"CPU_BOOT_KPSSV1", "CPU_BOOT_KPSSV2"}
  /\ \E i \in DOMAIN calls : \E k \in DOMAIN calls[i].tr :
       calls[i].op = "cpu_boot" /\ calls[i].tr[k].ev = "cpu_boot_kpssv1"

\* Two logged resolver calls of the same operation with the same arguments.
SameCall(c, d) == c.op = d.op /\ c.in = d.in

C15_InRangeRepeatable ==
  \A i \in DOMAIN calls :
    /\ Count(calls[i].tr, IsWrite) = 0
    /\ \A j \in DOMAIN calls :
         (SameCall(calls[i], calls[j]) /\ LoadsBeyond(dtb, calls[i].tr) = {})
         => calls[i].ret = calls[j].ret /\ calls[i].tr = calls[j].tr

\* The second address the compiled-in strategy resolves for a core node.
ExtraOf(cfg, t, node) ==
  CASE FirstSelected(cfg) = "cpu_boot_cortex_a" -> RefReg(t, node, "clocks")
    [] FirstSelected(cfg) = "cpu_boot_kpssv1" -> RefReg(t, node, "qcom,saw")
    [] OTHER -> LET l2 == RefNode(t, node, "next-level-cache")
                IN IF l2 < 0 THEN 0 ELSE RefReg(t, l2, "qcom,saw")

\* C16: every cpu_boot ends in exactly one of skipped, failed, succeeded.
\* One that succeeded invoked the compiled-in sequencer, and no other,
\* exactly once with the resolved addresses, and then waited the 100
\* microsecond settle delay as its last step; one that was skipped or
\* failed invoked no sequencer and waited no delay.
C16_OneOutcome ==
  \A i \in DOMAIN calls :
    LET c == calls[i]
        seq == {k \in DOMAIN c.tr : IsSequencer(c.tr[k])}
        dly == {k \in DOMAIN c.tr : IsDelay(c.tr[k])}
    IN c.op = "cpu_boot"
       => /\ c.out \in {"skipped", "failed", "succeeded"}
          /\ c.ret = (c.out # "failed")
          /\ (c.out = "skipped") = (c.in.mpidr = CallerId)
          /\ c.out = "succeeded"
             => /\ Cardinality(seq) = 1
                /\ \A k \in seq :
                     /\ c.tr[k].ev = FirstSelected(config)
                     /\ c.tr[k].a = AccOf(dtb, c.in.node) /\ c.tr[k].a # 0
                     /\ c.tr[k].v = ExtraOf(config, dtb, c.in.node)
                /\ dly = {Len(c.tr)}
                /\ c.tr[Len(c.tr)].v = 100
                /\ \A k \in DOMAIN c.tr : \A s \in seq :
                     IsWrite(c.tr[k]) => s < k /\ k < Len(c.tr)
          /\ c.out # "succeeded" => seq = {} /\ dly = {}

\* A core was booted through the two-level-cache sequencer and its boot
\* settled.
C16_Witness ==
  \E i \in DOMAIN calls :
    /\ calls[i].op = "cpu_boot"
    /\ calls[i].out = "succeeded"
    /\ config = {"CPU_BOOT_KPSSV2"}
    /\ \E k \in DOMAIN calls[i].tr :
         calls[i].tr[k].ev = "cpu_boot_kpssv2" /\ calls[i].tr[k].v = ExtraBase
    /\ calls[i].tr[Len(calls[i].tr)].ev = "udelay"

\* C17: with the modern secure-monitor interface supported,
\* cpu_boot_set_addr issues exactly one modern multi-core call, no legacy
\* call and no fallback diagnostic; the call carries the supplied address,
\* four all-ones core masks, and flags with the cold-boot bit (bit 1) set,
\* the aarch64 bit (bit 0) set exactly when arm64 is true, and the
\* warm-boot bit (bit 2) clear.
C17_ModernCall ==
  \A i \in DOMAIN calls :
    LET c == calls[i]
        scm == {k \in DOMAIN c.tr : IsScm(c.tr[k])}
    IN (c.op = "cpu_boot_set_addr" /\ scm_armv8)
       => /\ Cardinality(scm) = 1
          /\ Count(c.tr, IsFallbackLog) = 0
          /\ \A k \in scm :
               /\ c.tr[k].ev = "scm_call2"
               /\ c.tr[k].svc = "SCM_SVC_BOOT"
               /\ c.tr[k].cmd = 17
               /\ c.tr[k].nargs = 6
               /\ c.tr[k].addr = c.in.addr
               /\ c.tr[k].masks = <<0 - 1, 0 - 1, 0 - 1, 0 - 1>>
               /\ HasBit(c.tr[k].flags, 1)
               /\ HasBit(c.tr[k].flags, 0) = c.in.arm64
               /\ ~HasBit(c.tr[k].flags, 2)
               /\ c.tr[k].flags < 4

\* A 64-bit entry address was registered through the modern call.
C17_Witness ==
  \E i \in DOMAIN calls :
    /\ calls[i].op = "cpu_boot_set_addr"
    /\ scm_armv8
    /\ calls[i].in.arm64
    /\ \E k \in DOMAIN calls[i].tr :
         calls[i].tr[k].ev = "scm_call2" /\ calls[i].tr[k].flags = 3

\* The positions at which a call's trace leaves a critical section.
Exits(c) == {k \in DOMAIN c.tr : c.tr[k].ev = "exit_critical_section"}

\* The writes of a call to its core registers, in order.
CoreSequence(c) ==
  SelectSeq(WritesOf(c.tr), LAMBDA w : w[1] \in {c.in.base + 20, c.in.base + 4})

\* C18: in the msm8994 sequencer a cache phase that runs is over (rail
\* writes, then cache writes, then the exit from its critical section)
\* before the first core register write; with l2ccc_base zero no register
\* is read and no rail or cache register is written; and in every case the
\* core registers get 0x1, 0x3 at APC_PWR_GATE_CTL and then 0x79, 0x7D,
\* 0x3D, 0x3C, 0x0C, 0x8C at CPU_PWR_CTL.
C18_CacheBeforeCore ==
  \A i \in DOMAIN calls :
    LET c == calls[i] IN
    IsFamilyB(c)
    => /\ \A r \in RailWrites(c) : \A k \in CacheWrites(c) : r < k
       /\ CacheWrites(c) # {}
          => \E x \in Exits(c) :
               /\ \A k \in RailWrites(c) \cup CacheWrites(c) : k < x
               /\ \A k \in CoreWrites(c) : x < k
       /\ \A r \in RailWrites(c) : \A k \in CoreWrites(c) : r < k
       /\ c.in.l2ccc_base = 0
          => /\ Count(c.tr, LAMBDA e : e.ev = "readl") = 0
             /\ Len(WritesOf(c.tr)) = Cardinality(CoreWrites(c))
       /\ CoreSequence(c) =
            <<<<c.in.base + 20, 1>>, <<c.in.base + 20, 3>>,
              <<c.in.base + 4, 121>>, <<c.in.base + 4, 125>>,
              <<c.in.base + 4, 61>>, <<c.in.base + 4, 60>>,
              <<c.in.base + 4, 12>>, <<c.in.base + 4, 140>>>>

\* A call whose cache phase ran and left its critical section before the
\* core was enabled.
C18_Witness ==
  \E i \in DOMAIN calls :
    /\ IsFamilyB(calls[i])
    /\ calls[i].in.l2ccc_base # 0
    /\ CacheWrites(calls[i]) # {}
    /\ Cardinality(Exits(calls[i])) = 2
    /\ Len(CoreSequence(calls[i])) = 8

\* The positions at which a call's trace enters a critical section.
Enters(c) == {k \in DOMAIN c.tr : c.tr[k].ev = "enter_critical_section"}

\* C19: the critical sections of the msm8994 sequencer are balanced and
\* never nested: the depth is never more than one above, nor below, its
\* value at entry; the cache phase's section is left before the core
\* phase's is entered; a cache phase that returns early because the cache
\* is on enters none; and the depth on return is the depth at entry.
C19_BalancedNotNested ==
  /\ critical_section_count =
       (IF calls = <<>> THEN 0 ELSE calls[Len(calls)].in.depth)
  /\ \A i \in DOMAIN calls :
       LET c == calls[i]
           rel(k) == Depth(c.in.depth, c.tr, k) - c.in.depth
       IN IsFamilyB(c)
          => /\ \A k \in 1 .. Len(c.tr) + 1 : rel(k) \in {0, 1}
             /\ rel(Len(c.tr) + 1) = 0
             /\ Cardinality(Enters(c)) = Cardinality(Exits(c))
             /\ \A e \in Enters(c) : rel(e) = 0
             /\ \A k \in CacheWrites(c) : \A w \in CoreWrites(c) :
                  \E x \in Exits(c) : \E e \in Enters(c) : k < x /\ x < e /\ e < w
             /\ Cardinality(Enters(c)) = (IF CacheWrites(c) = {} THEN 1 ELSE 2)
             /\ \A r \in StatusReads(c) : CacheWrites(c) = {} => rel(r + 1) = 0

\* The cache phase returned early on a powered cache, and the call went
\* through one critical section and left it.
C19_Witness ==
  \E i \in DOMAIN calls :
    /\ IsFamilyB(calls[i])
    /\ StatusReads(calls[i]) # {}
    /\ CacheWrites(calls[i]) = {}
    /\ Cardinality(Enters(calls[i])) = 1
    /\ Cardinality(Exits(calls[i])) = 1
    /\ critical_section_count = 0

\* The writes of a call to its rail registers, in order.
RailSequence(c) ==
  SelectSeq(WritesOf(c.tr),
            LAMBDA w : w[1] \in {c.in.vctl_base_1, c.in.vctl_base_0 + 28})

\* C20: a rail power-up writes 0x2 to vctl_base_1 exactly when vctl_base_1
\* is non-zero, then vctl_val mod 256 to vctl_base_0 + L2_VREG_CTL and
\* waits 2000 microseconds, then 0x30080 to the same register and waits
\* 2000 microseconds again, and the second wait is over before the first
\* cache register write.
C20_RailSequence ==
  \A i \in DOMAIN calls :
    LET c == calls[i]
        vreg == c.in.vctl_base_0 + 28
        settles(k) == /\ k + 2 <= Len(c.tr)
                      /\ c.tr[k + 2].ev = "udelay" /\ c.tr[k + 2].v = 2000
    IN (IsFamilyB(c) /\ RailWrites(c) # {})
       => /\ RailSequence(c) =
               (IF c.in.vctl_base_1 # 0 THEN <<<<c.in.vctl_base_1, 2>>>> ELSE <<>>)
               \o <<<<vreg, c.in.vctl_val % 256>>, <<vreg, 196736>>>>
          /\ \A k \in RailWrites(c) :
               c.tr[k].a = vreg
               => /\ settles(k)
                  /\ \A w \in CacheWrites(c) : k + 2 < w
          /\ CacheWrites(c) # {}

\* A voltage value wider than eight bits was written truncated.
C20_Witness ==
  \E i \in DOMAIN calls :
    /\ IsFamilyB(calls[i])
    /\ calls[i].in.vctl_val = 421
    /\ calls[i].in.vctl_base_1 = 0
    /\ RailSequence(calls[i]) =
         <<<<calls[i].in.vctl_base_0 + 28, 165>>, <<calls[i].in.vctl_base_0 + 28, 196736>>>>

====
